---- MODULE Spec2Model ----
(* Model of src/commoncrawl_search.py: the Common Crawl index lookup           *)
(* (search_cc_index), the ranged archive fetch (fetch_single_record), the      *)
(* page report (process_content) and the driver (search_and_print_results).    *)
(*                                                                             *)
(* Strings are sequences of one-character strings. A JSON value, a body line,  *)
(* an HTTP response and a page are records of one fixed shape each, so that    *)
(* any two of them can be compared.                                            *)
EXTENDS Integers, Sequences, FiniteSets, TLC

VARIABLES
    queries,      \* the mapping handed to the driver: a sequence of groups
    pc,           \* where the driver is: group, query, record, done, crashed
    gi,           \* index of the current group
    qi,           \* index of the current query in its group
    ri,           \* index of the current record in records[:5]
    resp,         \* the index service's answer to the latest index query
    search,       \* what search_cc_index did with it
    records,      \* the driver's variable `records`
    aresp,        \* the archive store's answer to the latest ranged GET
    fetched,      \* what fetch_single_record did with it
    report,       \* what process_content printed for the latest page
    iter,         \* calls and prints of the latest pass of the record loop
    qout,         \* calls and prints of the latest query before its record loop
    fetchCalls,   \* fetch_single_record calls made for the current query
    processCalls, \* process_content calls made for the current query
    sleepCalls,   \* time.sleep(1) calls made for the current query
    searched,     \* search_cc_index calls made so far
    finished      \* "group finished" lines printed so far

vars == <<queries, pc, gi, qi, ri, resp, search, records, aresp, fetched,
          report, iter, qout, fetchCalls, processCalls, sleepCalls,
          searched, finished>>

----------------------------------------------------------------------------
(* Bounds and program constants *)

MaxMixed == 3
MaxLines == 6
MaxContainer == 2
RecordLimit == 5
ExcerptLimit == 1000

Min(a, b) == IF a < b THEN a ELSE b

----------------------------------------------------------------------------
(* Strings and quote_plus *)

SURR == "<U+D800>"

Letters == {"a", "e", "i", "k", "m", "n", "p", "r", "s", "t", "u", "f"}
Digits == {"0", "1", "5", "7"}
Unreserved == Letters \cup Digits \cup {"_", ".", "-", "~"}

quote_char(c) ==
    IF c \in Unreserved THEN <<c>>
    ELSE IF c = " " THEN <<"+">>
    ELSE IF c = "/" THEN <<"%", "2", "F">>
    ELSE IF c = ":" THEN <<"%", "3", "A">>
    ELSE <<"%", "?", "?">>

RECURSIVE quote_chars(_)
quote_chars(s) ==
    IF s = <<>> THEN <<>> ELSE quote_char(Head(s)) \o quote_chars(Tail(s))

\* quote_plus encodes the string as UTF-8 first, which fails on a lone surrogate.
quote_plus(s) ==
    IF \E i \in 1..Len(s) : s[i] = SURR
    THEN [ok |-> FALSE, s |-> <<>>]
    ELSE [ok |-> TRUE, s |-> quote_chars(s)]

\* The error handlers of the console that print() writes to: Python's
\* default ones reject a lone surrogate, backslashreplace writes it escaped.
Consoles == {"strict", "surrogateescape", "backslashreplace"}

\* print(f"... {query}") raises UnicodeEncodeError when the console cannot
\* encode the query.
print_raises(s, errors) ==
    /\ errors \in {"strict", "surrogateescape"}
    /\ \E i \in 1..Len(s) : s[i] = SURR

----------------------------------------------------------------------------
(* JSON values of an index record's fields, truthiness and int() *)

Absent == [t |-> "absent", n |-> 0, s |-> <<>>]
None == [t |-> "null", n |-> 0, s |-> <<>>]
Num(k) == [t |-> "num", n |-> k, s |-> <<>>]
Str(cs) == [t |-> "str", n |-> 0, s |-> cs]

\* Python truthiness of None, an int and a str.
Truthy(v) ==
    CASE v.t = "num" -> v.n # 0
      [] v.t = "str" -> Len(v.s) > 0
      [] OTHER -> FALSE

DigitVal(c) ==
    CASE c = "0" -> 0 [] c = "1" -> 1 [] c = "5" -> 5 [] c = "7" -> 7
      [] OTHER -> 0

RECURSIVE DecimalVal(_)
DecimalVal(s) ==
    IF s = <<>> THEN 0
    ELSE 10 * DecimalVal(SubSeq(s, 1, Len(s) - 1)) + DigitVal(s[Len(s)])

\* int(v) for the values that reach it: an int is itself, a string of
\* decimal digits is its value, any other string raises ValueError.
int(v) ==
    IF v.t = "num" THEN [ok |-> TRUE, v |-> v.n]
    ELSE IF v.t = "str" /\ Len(v.s) > 0 /\ \A i \in 1..Len(v.s) : v.s[i] \in Digits
    THEN [ok |-> TRUE, v |-> DecimalVal(v.s)]
    ELSE [ok |-> FALSE, v |-> 0]

\* A parsed JSON line: an object with some of the three keys, or a value
\* (a number, a list, a string) that is no object.
Obj(f, o, l) == [obj |-> TRUE, filename |-> f, offset |-> o, length |-> l]
NonObj == [obj |-> FALSE, filename |-> Absent, offset |-> Absent, length |-> Absent]

\* dict.get(key): None for a key the object does not hold.
get(record, key) == IF record[key].t = "absent" THEN None ELSE record[key]

----------------------------------------------------------------------------
(* The index service's response and search_cc_index *)

\* A line of the response body: empty, text that is not JSON, or JSON text.
EmptyLine == [kind |-> "empty", val |-> NonObj]
BadLine == [kind |-> "bad", val |-> NonObj]
JsonLine(v) == [kind |-> "json", val |-> v]

\* json.loads of one line.
json_loads(line) ==
    IF line.kind = "json" THEN [ok |-> TRUE, val |-> line.val]
    ELSE [ok |-> FALSE, val |-> NonObj]

RECURSIVE lstrip(_)
lstrip(lines) ==
    IF lines # <<>> /\ Head(lines).kind = "empty" THEN lstrip(Tail(lines))
    ELSE lines

RECURSIVE rstrip(_)
rstrip(lines) ==
    IF lines # <<>> /\ lines[Len(lines)].kind = "empty"
    THEN rstrip(SubSeq(lines, 1, Len(lines) - 1))
    ELSE lines

\* response.text.strip().split('\n') on a body given as its lines: the empty
\* lines at both ends go, and the empty text splits into one empty line.
strip_split(body) ==
    LET kept == rstrip(lstrip(body))
    IN  IF kept = <<>> THEN <<EmptyLine>> ELSE kept

\* response.raise_for_status(): HTTPError for a 4xx or 5xx status.
raise_for_status(status) == status >= 400 /\ status < 600

IndexResult(raised, diag, recs, url) ==
    [raised |-> raised, diag |-> diag, records |-> recs, url |-> url]

\* search_cc_index(query, index_name), given the service's answer.
search_cc_index(query, r) ==
    LET enc == quote_plus(query)
        lines == strip_split(r.body)
    IN  IF ~enc.ok THEN IndexResult(TRUE, "none", <<>>, <<>>)
        ELSE IF r.net = "timeout" THEN IndexResult(FALSE, "timeout", <<>>, enc.s)
        ELSE IF r.net = "error" THEN IndexResult(FALSE, "error", <<>>, enc.s)
        ELSE IF raise_for_status(r.status)
        THEN IndexResult(FALSE, "http", <<>>, enc.s)
        ELSE IF \E i \in 1..Len(lines) : ~json_loads(lines[i]).ok
        THEN IndexResult(FALSE, "error", <<>>, enc.s)
        ELSE IndexResult(FALSE, "none",
                         [i \in 1..Len(lines) |-> json_loads(lines[i]).val],
                         enc.s)

----------------------------------------------------------------------------
(* The archive store's response and fetch_single_record *)

\* A decoded page: its <title> (absent, empty, or with the text Test), its
\* <meta property="og:url"> (absent, without a content attribute, or with
\* content="http://x"), then textLen characters of plain text. The empty
\* string is the page with none of them.
Page(title, og, textLen) == [title |-> title, og |-> og, textLen |-> textLen]
EmptyString == Page("absent", "absent", 0)

\* The length of the text inside <title>.
TitleLen(p) == IF p.title = "text" THEN 4 ELSE 0

\* len(content): the markup of the tags present, the title's text and the
\* plain text.
ContentLen(p) ==
    (IF p.title = "absent" THEN 0 ELSE 15 + TitleLen(p))
    + (CASE p.og = "absent" -> 0 [] p.og = "nocontent" -> 24 [] OTHER -> 43)
    + p.textLen

WarcRecord(rec_type, content) == [rec_type |-> rec_type, content |-> content]

\* The Range header: bytes=offset-(offset + length - 1).
byte_range(offset, length) == <<offset, offset + length - 1>>

FetchResult(none, content, diag, range) ==
    [none |-> none, content |-> content, diag |-> diag, range |-> range]

\* The first record of the container whose rec_type is "response", 0 if none.
RECURSIVE first_response(_, _)
first_response(stream, i) ==
    IF i > Len(stream) THEN 0
    ELSE IF stream[i].rec_type = "response" THEN i
    ELSE first_response(stream, i + 1)

\* A slip: any status that raise_for_status lets through is taken.
is_partial_content_any_success(status) == status >= 200

\* The status that lets the container be read.
is_partial_content(status) == status = 206

\* fetch_single_record(warc_record_filename, offset, length), given the
\* store's answer: the content of the first response record, or None.
fetch_single_record(filename, offset, length, r) ==
    LET range == byte_range(offset, length)
        k == first_response(r.stream, 1)
    IN  IF r.net = "timeout" THEN FetchResult(TRUE, EmptyString, "timeout", range)
        ELSE IF r.net = "error" THEN FetchResult(TRUE, EmptyString, "error", range)
        ELSE IF raise_for_status(r.status)
        THEN FetchResult(TRUE, EmptyString, "http", range)
        ELSE IF ~is_partial_content(r.status)
        THEN FetchResult(TRUE, EmptyString, "status", range)
        ELSE IF k = 0 THEN FetchResult(TRUE, EmptyString, "none", range)
        ELSE FetchResult(FALSE, r.stream[k].content, "none", range)

----------------------------------------------------------------------------
(* process_content *)

Report(raised, printed, title, url, excerpt) ==
    [raised |-> raised, printed |-> printed, title |-> title, url |-> url,
     excerpt |-> excerpt]
NoReport == Report(FALSE, 0, "", "", 0)

\* title.get_text(strip=True), or the fallback label (the source's Russian
\* labels are written in Latin letters here).
title_text(p) ==
    CASE p.title = "absent" -> "Bez zagolovka"
      [] p.title = "empty" -> ""
      [] OTHER -> "Test"

\* soup.get_text()[:1000], as its length: get_text() is the title's text
\* followed by the plain text.
excerpt_len(p) == Min(TitleLen(p) + p.textLen, ExcerptLimit)

\* process_content(content, query): the number of lines printed, and what
\* they hold. Indexing the og:url tag with ['content'] raises KeyError when
\* the tag has no such attribute, after two lines were printed.
process_content(p) ==
    CASE p.og = "absent" -> Report(FALSE, 6, title_text(p), "Neizvestno", excerpt_len(p))
      [] p.og = "content" -> Report(FALSE, 6, title_text(p), "http://x", excerpt_len(p))
      [] OTHER -> Report(TRUE, 2, title_text(p), "", 0)

----------------------------------------------------------------------------
(* Inputs: the mappings of groups to queries, and what the two services answer *)

Group(name, query_list) == [name |-> name, query_list |-> query_list]

\* The mapping of the script's entry point.
search_queries ==
    << Group("Perm", << <<"p", "s", "t", "u", ".", "r", "u">>,
                        <<"p", "e", "r", "m", ".", "r", "u">> >>),
       Group("MSU", << <<"m", "s", "u", ".", "r", "u">>,
                       <<"m", "i", "p", "t", ".", "r", "u">> >>),
       Group("Pasternak", << <<"p", "a", "s", "t", "e", "r", "n", "a", "k", "m",
                               "u", "s", "e", "u", "m", ".", "r", "u">> >>) >>

\* Another mapping: a group with no query, a query with a space and a slash,
\* and a query that holds a lone surrogate.
QueryMaps ==
    { search_queries,
      << Group("none", <<>>),
         Group("odd", << <<"a", " ", "/">>, <<SURR>>, <<"a">> >>) >> }

FilenameVals == {Absent, Str(<<>>), Str(<<"f">>)}
NumberVals ==
    {Absent, None, Num(0), Num(7), Str(<<>>), Str(<<"0">>), Str(<<"1", "5">>),
     Str(<<"a">>)}
Objects == {Obj(f, o, l) : f \in FilenameVals, o \in NumberVals, l \in NumberVals}

Good == Obj(Str(<<"f">>), Str(<<"1", "5">>), Str(<<"7">>))
ZeroOffset == Obj(Str(<<"f">>), Num(0), Num(7))

SeqsUpTo(S, lo, hi) == UNION {[1..n -> S] : n \in lo..hi}

\* Bodies: one line of any kind; up to MaxMixed lines, empty or not JSON among
\* them; up to MaxLines records, more than the driver takes.
Bodies ==
    {<<JsonLine(v)>> : v \in Objects \cup {NonObj}}
    \cup SeqsUpTo({EmptyLine, BadLine, JsonLine(Good), JsonLine(ZeroOffset)},
                  1, MaxMixed)
    \cup SeqsUpTo({JsonLine(Good)}, 1, MaxLines)

IndexResponse(net, status, body) == [net |-> net, status |-> status, body |-> body]
IndexResponses ==
    {IndexResponse(n, 200, <<EmptyLine>>) : n \in {"timeout", "error"}}
    \cup {IndexResponse("ok", s, <<EmptyLine>>) : s \in {404, 503}}
    \cup {IndexResponse("ok", 200, b) : b \in Bodies}

Pages ==
    {EmptyString, Page("text", "content", ExcerptLimit + 1),
     Page("absent", "absent", 5), Page("text", "nocontent", 5)}
AllPages ==
    {Page(title, og, n) : title \in {"absent", "empty", "text"},
                          og \in {"absent", "nocontent", "content"},
                          n \in {0, 5, ExcerptLimit, ExcerptLimit + 1}}
WarcRecords ==
    {WarcRecord("request", EmptyString)}
    \cup {WarcRecord("response", p) : p \in Pages}

ArchiveResponse(net, status, stream) ==
    [net |-> net, status |-> status, stream |-> stream]
ArchiveResponses ==
    {ArchiveResponse(n, 206, <<>>) : n \in {"timeout", "error"}}
    \cup {ArchiveResponse("ok", s,
                          <<WarcRecord("response", Page("text", "content", 5))>>) :
             s \in {200, 404}}
    \cup {ArchiveResponse("ok", 206, c) : c \in SeqsUpTo(WarcRecords, 0, MaxContainer)}
\* The same, and every page alone in its container.
ArchiveResponsesOne ==
    ArchiveResponses
    \cup {ArchiveResponse("ok", 206, <<WarcRecord("response", p)>>) : p \in AllPages}

NoIndexResponse == IndexResponse("none", 0, <<EmptyLine>>)
NoArchiveResponse == ArchiveResponse("none", 0, <<>>)
NoSearch == IndexResult(FALSE, "none", <<>>, <<>>)
NoFetch == FetchResult(TRUE, EmptyString, "none", <<0, 0>>)

----------------------------------------------------------------------------
(* search_and_print_results *)

\* A slip: the list is tested for being there, not for holding a record.
has_records_not_none(recs) == Len(recs) >= 0

\* `if records:`
has_records(recs) == Len(recs) > 0

\* A slip: the slice is left out.
record_slice_all(recs) == recs

\* records[:5]
record_slice(recs) == SubSeq(recs, 1, Min(Len(recs), RecordLimit))

\* `if warc_filename and offset and length:`
has_fields(record) ==
    /\ Truthy(get(record, "filename"))
    /\ Truthy(get(record, "offset"))
    /\ Truthy(get(record, "length"))

\* A slip: `if content is not None:`.
content_ok_not_none(f) == ~f.none

\* `if content:` on what fetch_single_record returned.
content_ok(f) == ~f.none /\ ContentLen(f.content) > 0

\* A slip: the sleep is made after a fetch only.
after_record_fetch_only(events) ==
    IF events[1] = "fetch" THEN Append(events, "sleep") ELSE events

\* time.sleep(1), the last statement of the loop body.
after_record(events) == Append(events, "sleep")

Iteration(crashed, events, f, rep) ==
    [crashed |-> crashed, events |-> events, fetched |-> f, report |-> rep]

\* One pass of the record loop for `record`, the store answering `ar`.
\* record.get raises AttributeError on a value that is no object, and int()
\* raises ValueError on a string that is no number; neither is caught.
handle_record(record, ar) ==
    IF ~record.obj THEN Iteration(TRUE, <<>>, NoFetch, NoReport)
    ELSE IF ~has_fields(record)
    THEN Iteration(FALSE, after_record(<<"print:insufficient">>), NoFetch, NoReport)
    ELSE
      LET o == int(get(record, "offset"))
          l == int(get(record, "length"))
          f == fetch_single_record(get(record, "filename"), o.v, l.v, ar)
          rep == process_content(f.content)
      IN  IF ~o.ok \/ ~l.ok THEN Iteration(TRUE, <<>>, NoFetch, NoReport)
          ELSE IF ~content_ok(f)
          THEN Iteration(FALSE, after_record(<<"fetch", "print:could_not_fetch">>),
                         f, NoReport)
          ELSE IF rep.raised THEN Iteration(TRUE, <<"fetch", "process">>, f, rep)
          ELSE Iteration(FALSE, after_record(<<"fetch", "process">>), f, rep)

Count(events, e) == Cardinality({i \in 1..Len(events) : events[i] = e})

Init ==
    /\ queries \in QueryMaps
    /\ pc = "group"
    /\ gi = 1
    /\ qi = 1
    /\ ri = 1
    /\ resp = NoIndexResponse
    /\ search = NoSearch
    /\ records = <<>>
    /\ aresp = NoArchiveResponse
    /\ fetched = NoFetch
    /\ report = NoReport
    /\ iter = <<>>
    /\ qout = <<>>
    /\ fetchCalls = 0
    /\ processCalls = 0
    /\ sleepCalls = 0
    /\ searched = 0
    /\ finished = 0

\* `for group_name, query_list in queries.items():` and the group's header.
StartGroup ==
    /\ pc = "group"
    /\ gi <= Len(queries)
    /\ pc' = "query"
    /\ qi' = 1
    /\ UNCHANGED <<queries, gi, ri, resp, search, records, aresp, fetched, report,
                   iter, qout, fetchCalls, processCalls, sleepCalls, searched,
                   finished>>

\* What the body of `for query in query_list:` does up to the record loop,
\* the index answering `r`: the index query and the line that tells what it
\* found. An exception that leaves search_cc_index leaves the driver too,
\* and then no request was made.
SearchWith(r) ==
    LET s == search_cc_index(queries[gi].query_list[qi], r)
    IN  /\ resp' = IF s.raised THEN NoIndexResponse ELSE r
        /\ search' = s
        /\ searched' = searched + 1
        /\ records' = IF s.raised THEN records ELSE s.records
        /\ qout' = IF s.raised THEN <<"print:query", "search">>
                   ELSE IF has_records(s.records)
                   THEN <<"print:query", "search", "print:found">>
                   ELSE <<"print:query", "search", "print:no_results">>
        /\ pc' = IF s.raised THEN "crashed"
                 ELSE IF has_records(s.records) THEN "record" ELSE "next_query"
        /\ ri' = 1
        /\ UNCHANGED <<queries, gi, qi, aresp, fetched, report, iter, fetchCalls,
                       processCalls, sleepCalls, finished>>

\* The print of the query raised: the driver is left before any call.
PrintCrash ==
    /\ pc' = "crashed"
    /\ UNCHANGED <<queries, gi, qi, ri, resp, search, records, aresp, fetched,
                   report, iter, qout, fetchCalls, processCalls, sleepCalls,
                   searched, finished>>

\* The body of `for query in query_list:` up to the record loop. The error
\* handler of the console is the environment's: the step takes either.
SearchQuery ==
    /\ pc = "query"
    /\ qi <= Len(queries[gi].query_list)
    /\ \E r \in IndexResponses, errors \in Consoles :
         IF print_raises(queries[gi].query_list[qi], errors)
         THEN PrintCrash
         ELSE SearchWith(r)

\* One pass of `for record in records[:5]:`, the store answering `ar`.
HandleWith(ar) ==
    LET it == handle_record(record_slice(records)[ri], ar)
    IN  /\ iter' = it.events
        /\ fetched' = it.fetched
        /\ report' = it.report
        /\ fetchCalls' = fetchCalls + Count(it.events, "fetch")
        /\ processCalls' = processCalls + Count(it.events, "process")
        /\ sleepCalls' = sleepCalls + Count(it.events, "sleep")
        /\ pc' = IF it.crashed THEN "crashed"
                 ELSE IF ri < Len(record_slice(records)) THEN "record"
                 ELSE "next_query"
        /\ ri' = IF it.crashed THEN ri ELSE ri + 1
        /\ UNCHANGED <<queries, gi, qi, resp, search, records, aresp, qout,
                       searched, finished>>

HandleRecord ==
    /\ pc = "record"
    /\ ri <= Len(record_slice(records))
    /\ \E ar \in ArchiveResponses : HandleWith(ar)

\* The body of `for query in query_list:` is over and the loop moves on. What
\* was observed of the query is cleared: nothing reads it afterwards.
NextQuery ==
    /\ pc = "next_query"
    /\ pc' = "query"
    /\ qi' = qi + 1
    /\ ri' = 1
    /\ resp' = NoIndexResponse
    /\ search' = NoSearch
    /\ records' = <<>>
    /\ fetched' = NoFetch
    /\ report' = NoReport
    /\ iter' = <<>>
    /\ qout' = <<>>
    /\ fetchCalls' = 0
    /\ processCalls' = 0
    /\ sleepCalls' = 0
    /\ UNCHANGED <<queries, gi, aresp, searched, finished>>

\* The group's queries are done: the "group finished" line.
EndGroup ==
    /\ pc = "query"
    /\ qi > Len(queries[gi].query_list)
    /\ finished' = finished + 1
    /\ gi' = gi + 1
    /\ pc' = "group"
    /\ UNCHANGED <<queries, qi, ri, resp, search, records, aresp, fetched, report,
                   iter, qout, fetchCalls, processCalls, sleepCalls, searched>>

\* The groups are done: search_and_print_results returns.
Finish ==
    /\ pc = "group"
    /\ gi > Len(queries)
    /\ pc' = "done"
    /\ UNCHANGED <<queries, gi, qi, ri, resp, search, records, aresp, fetched,
                   report, iter, qout, fetchCalls, processCalls, sleepCalls,
                   searched, finished>>

Next ==
    StartGroup \/ SearchQuery \/ HandleRecord \/ NextQuery \/ EndGroup \/ Finish

Spec == Init /\ [][Next]_vars

----------------------------------------------------------------------------
(* One record with a given answer of the store: the driver right after an   *)
(* index query that found one record, any object or value, and the answer   *)
(* the store is about to give to its ranged GET.                            *)

InitRecord ==
    /\ queries = search_queries
    /\ pc = "record"
    /\ gi = 1
    /\ qi = 1
    /\ ri = 1
    /\ resp \in {IndexResponse("ok", 200, <<JsonLine(v)>>) : v \in Objects \cup {NonObj}}
    /\ search = search_cc_index(queries[gi].query_list[qi], resp)
    /\ records = search.records
    /\ aresp \in ArchiveResponsesOne
    /\ fetched = NoFetch
    /\ report = NoReport
    /\ iter = <<>>
    /\ qout = <<"print:query", "search", "print:found">>
    /\ fetchCalls = 0
    /\ processCalls = 0
    /\ sleepCalls = 0
    /\ searched = 1
    /\ finished = 0

HandleGiven ==
    /\ pc = "record"
    /\ ri <= Len(record_slice(records))
    /\ HandleWith(aresp)

NextRecord == HandleGiven

SpecRecord == InitRecord /\ [][NextRecord]_vars

----------------------------------------------------------------------------
(* What the claims speak of *)

\* An index query was made for the current query.
Searched == qout # <<>>

\* The step is an index query; the step is a pass of the record loop.
SearchStep == searched' = searched + 1
RecordStep == pc = "record" /\ iter' # iter

\* SpecRecord: the one record was handled, or the driver crashed on it.
Handled == pc # "record"
FetchCalled == Count(iter, "fetch") = 1

\* The three fields of an index record are present and truthy.
Complete(record) ==
    /\ record.obj
    /\ \A key \in {"filename", "offset", "length"} :
         /\ record[key].t \in {"num", "str"}
         /\ record[key] \notin {Num(0), Str(<<>>)}

\* The container holds no record of type "response".
NoResponse(stream) == \A i \in 1..Len(stream) : stream[i].rec_type # "response"

\* The parsed non-empty lines of a body, in body order.
RECURSIVE NonEmptyParsed(_)
NonEmptyParsed(body) ==
    IF body = <<>> THEN <<>>
    ELSE IF Head(body).kind = "empty" THEN NonEmptyParsed(Tail(body))
    ELSE <<Head(body).val>> \o NonEmptyParsed(Tail(body))

TotalQueries(m) ==
    LET RECURSIVE Sum(_)
        Sum(i) == IF i = 0 THEN 0 ELSE Sum(i - 1) + Len(m[i].query_list)
    IN  Sum(Len(m))

----------------------------------------------------------------------------
(* C1 *)

\* C1: when search_cc_index returns an empty list for a query, the driver
\* prints the "no results" line, makes no fetch_single_record, process_content
\* or sleep call for that query, and its next step is the move to the next
\* query of the group (or, past the last one, the end of the group).
C1_NoResultsThenNextQuery ==
    [][ /\ (SearchStep /\ ~search'.raised /\ search'.records = <<>>)
           => /\ qout' = <<"print:query", "search", "print:no_results">>
              /\ pc' = "next_query"
              /\ fetchCalls' = 0 /\ processCalls' = 0 /\ sleepCalls' = 0
              /\ iter' = <<>>
        /\ (pc = "next_query" /\ records = <<>>)
           => /\ pc' = "query" /\ qi' = qi + 1 /\ gi' = gi
              /\ fetchCalls' = 0 /\ processCalls' = 0 /\ sleepCalls' = 0
              /\ searched' = searched ]_vars

\* The index answered 200 with an empty body, "no results" was printed and the
\* driver is about to move to the second query of the group.
C1_Witness ==
    /\ pc = "next_query"
    /\ resp = IndexResponse("ok", 200, <<EmptyLine>>)
    /\ qout = <<"print:query", "search", "print:no_results">>
    /\ fetchCalls = 0
    /\ qi = 1 /\ Len(queries[gi].query_list) > 1

(* C2 *)

\* C2: for an index record that is a JSON object, fetch_single_record is
\* called exactly when filename, offset and length are all present and
\* truthy; otherwise the driver prints the "insufficient data" line, sleeps
\* and goes on without crashing.
C2_FetchIffComplete ==
    (Handled /\ records[1].obj) =>
        /\ FetchCalled <=> Complete(records[1])
        /\ ~Complete(records[1])
           => pc # "crashed" /\ iter = <<"print:insufficient", "sleep">>

(* C3 *)

\* C3: no exception escapes search_and_print_results, and when it returns
\* every query of every group was searched and every group's "finished" line
\* was printed.
C3_NeverCrashes ==
    /\ pc # "crashed"
    /\ pc = "done" => searched = TotalQueries(queries) /\ finished = Len(queries)

(* C4 *)

\* C4: when the ranged GET answers with a status other than 206, or with 206
\* and a container that holds no "response" record, fetch_single_record
\* returns None without raising, and the driver prints the "could not fetch"
\* line, does not call process_content, sleeps and goes on.
C4_NoContentIsSkipped ==
    ( /\ Handled /\ FetchCalled /\ aresp.net = "ok"
      /\ aresp.status # 206 \/ NoResponse(aresp.stream) )
    => /\ fetched.none
       /\ pc = "next_query" /\ ri = 2
       /\ iter = <<"fetch", "print:could_not_fetch", "sleep">>
       /\ processCalls = 0

\* The store answered 206 with a container that holds a request record only.
C4_Witness ==
    /\ Handled /\ FetchCalled
    /\ aresp = ArchiveResponse("ok", 206, <<WarcRecord("request", EmptyString)>>)
    /\ fetched.none
    /\ iter = <<"fetch", "print:could_not_fetch", "sleep">>

(* C5 *)

\* C5: on a successful response whose body is made of JSON lines and empty
\* lines, search_cc_index returns the parsed non-empty lines in body order.
C5_ParsesNonEmptyLines ==
    ( /\ Searched /\ resp.net = "ok" /\ ~raise_for_status(resp.status)
      /\ \A i \in 1..Len(resp.body) : resp.body[i].kind \in {"json", "empty"} )
    => search.records = NonEmptyParsed(resp.body)

(* C6 *)

\* C6: search_cc_index never raises: on a timeout, an HTTP error status, or
\* any other failure it prints one diagnostic line and returns an empty
\* list, and the driver takes the "no results" branch.
C6_FailsOpen ==
    Searched =>
        /\ ~search.raised
        /\ ( \/ resp.net \in {"timeout", "error"}
             \/ raise_for_status(resp.status)
             \/ \E i \in 1..Len(resp.body) : resp.body[i].kind = "bad" )
           => /\ search.diag # "none"
              /\ search.records = <<>>
              /\ qout = <<"print:query", "search", "print:no_results">>

(* C7 *)

\* C7: a fetch_single_record call is made only in a pass of the record loop,
\* for the record at position ri <= 5 of the list that the index query of
\* the current query returned, one call at most per position, and no index
\* query is made until the loop is over.
C7_AtMostFiveInOrder ==
    [][ /\ (fetchCalls' > fetchCalls)
           => /\ pc = "record"
              /\ qout = <<"print:query", "search", "print:found">>
              /\ records = search.records
              /\ ri <= RecordLimit /\ ri <= Len(records)
              /\ fetchCalls' = fetchCalls + 1 /\ fetchCalls' <= ri
              /\ fetchCalls' <= RecordLimit
              /\ searched' = searched
        /\ RecordStep => ri <= RecordLimit /\ (ri' = ri + 1 \/ pc' = "crashed")
        /\ SearchStep => fetchCalls = 0 /\ pc = "query" ]_vars

\* The index returned six records and the driver fetched five of them.
C7_Witness ==
    /\ pc = "next_query"
    /\ Len(records) = RecordLimit + 1
    /\ fetchCalls = RecordLimit
    /\ ri = RecordLimit + 1

(* C8 *)

\* C8: every pass of the record loop that does not crash ends with exactly
\* one sleep, whether the record was processed, could not be fetched or was
\* skipped, so that the sleeps of a query are as many as the records handled
\* and a fetch is always followed by a sleep before the next pass; a query
\* without records has no sleep.
C8_OneSleepPerRecord ==
    /\ (Searched /\ pc # "crashed") => sleepCalls = ri - 1
    /\ (Searched /\ pc = "crashed") => sleepCalls <= ri - 1
    /\ (iter # <<>> /\ pc # "crashed")
       => /\ Count(iter, "sleep") = 1
          /\ iter[Len(iter)] = "sleep"
    /\ records = <<>> => sleepCalls = 0

\* Three records, the second one skipped: three sleeps and two fetches.
C8_Witness ==
    /\ pc = "next_query"
    /\ Len(records) = 3
    /\ ~Complete(records[2])
    /\ fetchCalls = 2
    /\ sleepCalls = 3

(* C9 *)

\* C9: process_content never raises: it prints its six lines, with the
\* fallback title when <title> is absent, the fallback URL when the og:url
\* value is unavailable, and an excerpt of at most 1000 characters.
C9_ProcessNeverRaises ==
    (Handled /\ processCalls = 1) =>
        /\ ~report.raised
        /\ pc # "crashed"
        /\ report.printed = 6
        /\ fetched.content.title = "absent" => report.title = "Bez zagolovka"
        /\ fetched.content.og # "content" => report.url = "Neizvestno"
        /\ report.excerpt <= ExcerptLimit

(* C10 *)

\* C10: process_content is called for a fetched record exactly when
\* fetch_single_record returned a non-empty string; a response record whose
\* decoded body is the empty string gets the "could not fetch" line.
C10_ProcessIffNonEmpty ==
    (Handled /\ FetchCalled) =>
        /\ processCalls = 1 <=> (~fetched.none /\ fetched.content # EmptyString)
        /\ (~fetched.none /\ fetched.content = EmptyString)
           => /\ iter = <<"fetch", "print:could_not_fetch", "sleep">>
              /\ pc = "next_query"

\* The store answered 206 and the response record's body decoded to "".
C10_Witness ==
    /\ Handled /\ FetchCalled
    /\ aresp = ArchiveResponse("ok", 206, <<WarcRecord("response", EmptyString)>>)
    /\ ~fetched.none
    /\ fetched.content = EmptyString
    /\ processCalls = 0

====
